---- MODULE Spec2Model ----
(***************************************************************************)
(* co-deployer: the deployment execution engine of co-deployer.py.         *)
(*                                                                         *)
(* Three specifications share this module:                                 *)
(*   Spec        the whole run of the script: validate the configuration,  *)
(*               resolve the hosts, then deploy() every selected           *)
(*               deployment, one statement group of deploy() per action;   *)
(*   SpecUpload  sftp_upload / ftp_upload applied to bounded staged trees  *)
(*               and remote servers with injected faults;                  *)
(*   SpecProto   build_protocol_dict applied to bounded host records,      *)
(*               followed by the connect call that uses its result.        *)
(***************************************************************************)
EXTENDS Integers, Sequences, FiniteSets, TLC

\* ---------------------------------------------------------------- bounds
\* Longest list of deployments in a configuration.
MaxBatch == 2

\* Staged trees: at most MaxNames entries in a directory, directories nested
\* at most MaxDepth deep below the staging root.
MaxNames == 2
MaxDepth == 2

\* Files and directories in a staged tree, at most.
MaxItems == 4

\* Items of a staged tree whose operations fail, at most.
MaxFaults == 1

\* Times the same deployment is uploaded to the same server.
MaxRuns == 2
MaxExclude == 2

\* ------------------------------------------------------------- vocabulary
\* The keys of opened_connections (co-deployer.py:334-338).
Protocols == {"ssh", "ftp", "sftp"}

\* The protocols the schema accepts for a deployment (co-deployer.py:98).
SchemaProtocols == {"ftp", "sftp"}

\* The protocols a configuration file may name: the schema's and "ssh".
ConfigProtocols == {"ftp", "sftp", "ssh"}

\* The names of the hosts the configuration declares, and the names a
\* deployment may give as its host ("ghost" is declared nowhere).
HostNames == {"prod"}
HostRefs == {"prod", "ghost"}

\* The keys of a deployment's cmd object (co-deployer.py:105-115).  A cmd
\* is modelled by the set of its keys that hold a non-empty command: that is
\* what cmd.get(key) tests in deploy().
CmdKeys == {"before", "after", "ssh_before", "ssh_after"}

\* The deployments a configuration file may list.
Deployments == [protocol : ConfigProtocols, host : HostRefs]

VARIABLES
    config,              \* config["deployments"], all of them selected
    pc,                  \* the statement the script is at
    i,                   \* index in to_deploy of the running deployment
    cmd,                 \* deploy(): the keys of cmd holding a command
    tmp_dir,             \* deploy(): the staging directory (0: none yet)
    fs,                  \* the staging directories that exist on disk
    opened_connections,  \* deploy(): the dict of line 334
    live,                \* <<run, protocol>>: connections open right now
    close_attempted,     \* protocols whose close() was called in this run
    log,                 \* the steps this run has performed, in order
    fault,               \* the steps of this run that raised
    error_host,          \* the host build_deployments_dict's error names
    result,              \* deploy(): the output of the last hook
    uploads,             \* the upload calls of this run, in order
    \* ---- SpecUpload
    client,              \* the uploader: "sftp" or "ftp"
    tree,                \* the staged tree (tmp_dir)
    remote_path,         \* the deployment's remote_path
    remote_dirs,         \* the directories on the server
    remote_files,        \* the files on the server
    faults,              \* <<operation, item>>: what fails for which item
    cwd,                 \* the FTP session's working directory
    ops,                 \* the client calls of the last upload, in order
    raised,              \* the last upload ended by an exception
    runs,                \* uploads done so far
    \* ---- SpecProto
    ppc,                 \* "input", "built", "connected"
    host,                \* deployment["host"]
    protocol_arg,        \* build_protocol_dict's argument protocol
    protocol_dict,       \* what build_protocol_dict returned
    connected,           \* what the connect call handed to the library
    \* ---- SpecStage
    spc,                 \* the statement create_tmp_file_structure is at
    source,              \* the tree at localpath when the function is called
    exclude,             \* its exclude argument, a list of paths
    item_no,             \* index in exclude of the item the loop is at
    disk                 \* the files and the directories of the machine

dvars == <<config, pc, i, cmd, tmp_dir, fs, opened_connections, live,
           close_attempted, log, fault, error_host, result, uploads>>
uvars == <<client, tree, remote_path, remote_dirs, remote_files, faults, cwd,
           ops, raised, runs>>
pvars == <<ppc, host, protocol_arg, protocol_dict, connected>>
svars == <<spc, source, exclude, item_no, disk>>
vars == <<dvars, uvars, pvars, svars>>

\* Sequences over S of length 1..n.
SeqsUpTo(S, n) == UNION {[1..k -> S] : k \in 1..n}

\* A faulty order of the post-hooks: the remote one, then the local one.
AfterPostSwapped(p) ==
    CASE p = "stage" -> "open_ssh"
      [] p = "open_ssh" -> "open_sftp"
      [] p = "open_sftp" -> "open_ftp"
      [] p = "open_ftp" -> "before"
      [] p = "before" -> "ssh_before"
      [] p = "ssh_before" -> "transfer"
      [] p = "transfer" -> "ssh_after"
      [] p = "ssh_after" -> "after"
      [] p = "after" -> "close"
      [] p = "close" -> "remove"
      [] p = "remove" -> "loop"

\* ================================================================ deploy
\* A faulty order of deploy()'s statements: the upload ahead of the remote
\* pre-hook.
AfterSwapped(p) ==
    CASE p = "stage" -> "open_ssh"
      [] p = "open_ssh" -> "open_sftp"
      [] p = "open_sftp" -> "open_ftp"
      [] p = "open_ftp" -> "before"
      [] p = "before" -> "transfer"
      [] p = "transfer" -> "ssh_before"
      [] p = "ssh_before" -> "after"
      [] p = "after" -> "ssh_after"
      [] p = "ssh_after" -> "close"
      [] p = "close" -> "remove"
      [] p = "remove" -> "loop"

\* The statement groups of deploy(), in the order the function has them.
\*   stage 326, open_ssh 341-343, open_sftp 345-347, open_ftp 349-351,
\*   before 354-356, ssh_before 358-360, transfer 363-371, after 374-376,
\*   ssh_after 378-380, close 382, remove 383, then back to the for loop.
After(p) ==
    CASE p = "stage" -> "open_ssh"
      [] p = "open_ssh" -> "open_sftp"
      [] p = "open_sftp" -> "open_ftp"
      [] p = "open_ftp" -> "before"
      [] p = "before" -> "ssh_before"
      [] p = "ssh_before" -> "transfer"
      [] p = "transfer" -> "after"
      [] p = "after" -> "ssh_after"
      [] p = "ssh_after" -> "close"
      [] p = "close" -> "remove"
      [] p = "remove" -> "loop"

\* Where the script stops: the for loop ran out ("done"), sys.exit(1)
\* ("exit"), or an exception nobody catches ended the process ("crash").
Terminal == {"done", "exit", "crash"}

NoConnections == [p \in Protocols |-> FALSE]

\* The running deployment.
deployment == config[i]

\* A faulty condition on SSH: the hooks never open it.
NeedsSshNever(c) == FALSE

\* A faulty condition for opening SSH: ssh_after forgotten.
NeedsSshBeforeOnly(c) == "ssh_before" \in c

\* deploy() line 341: the condition under which SSH is opened.
NeedsSsh(c) == "ssh_before" \in c \/ "ssh_after" \in c

\* A step of deploy() that was skipped: nothing but the program counter moves.
Skip ==
    /\ pc' = After(pc)
    /\ UNCHANGED <<config, i, cmd, tmp_dir, fs, opened_connections, live,
                   close_attempted, log, fault, error_host, result, uploads>>

\* validate_config: jsonschema rejects a protocol outside the enum.
validate_config ==
    /\ pc = "validate"
    /\ pc' = IF \A k \in 1..Len(config) : config[k].protocol \in SchemaProtocols
             THEN "build" ELSE "exit"
    /\ UNCHANGED <<config, i, cmd, tmp_dir, fs, opened_connections, live,
                   close_attempted, log, fault, error_host, result, uploads>>
    /\ UNCHANGED <<uvars, pvars, svars>>

\* The deployments of the configuration whose host is declared nowhere.
Unresolved == {k \in 1..Len(config) : config[k].host \notin HostNames}

\* build_deployments_dict without its check: every deployment goes into the
\* dict, whatever its host.
build_deployments_dict_unchecked ==
    /\ pc = "build"
    /\ pc' = "loop"
    /\ UNCHANGED <<config, i, cmd, tmp_dir, fs, opened_connections, live,
                   close_attempted, log, fault, error_host, result, uploads>>
    /\ UNCHANGED <<uvars, pvars, svars>>

\* build_deployments_dict: the first deployment, in the order of the file,
\* whose host is not declared ends the script with sys.exit(1) before the
\* loop; the message printed names that host (lines 155-157).
build_deployments_dict ==
    /\ pc = "build"
    /\ IF Unresolved = {}
       THEN pc' = "loop" /\ UNCHANGED error_host
       ELSE /\ pc' = "exit"
            /\ error_host' =
                 config[CHOOSE k \in Unresolved : \A j \in Unresolved : k <= j].host
    /\ UNCHANGED <<config, i, cmd, tmp_dir, fs, opened_connections, live,
                   close_attempted, log, fault, result, uploads>>
    /\ UNCHANGED <<uvars, pvars, svars>>

\* for d in to_deploy: deploy(d).  Entering deploy() reads the deployment's
\* variables (lines 313-321); its locals start fresh.
main_loop ==
    /\ pc = "loop"
    /\ IF i < Len(config)
       THEN /\ i' = i + 1
            /\ cmd' \in SUBSET CmdKeys
            /\ pc' = "stage"
            /\ tmp_dir' = 0
            /\ opened_connections' = NoConnections
            /\ close_attempted' = {}
            /\ log' = <<>>
            /\ fault' = {}
            /\ result' = ""
            /\ uploads' = <<>>
       ELSE /\ pc' = "done"
            /\ UNCHANGED <<i, cmd, tmp_dir, opened_connections,
                           close_attempted, log, fault, result, uploads>>
    /\ UNCHANGED <<config, fs, live, error_host>>
    /\ UNCHANGED <<uvars, pvars, svars>>

\* create_tmp_file_structure: copytree into a directory named by a fresh
\* uuid (the run's index stands for it), then the excludes are removed.  A
\* copytree that raises ends the script with sys.exit(1); the directory it
\* was copying into may or may not exist by then.
create_tmp_file_structure ==
    /\ pc = "stage"
    /\ log' = Append(log, "stage")
    /\ \E ok \in BOOLEAN :
         IF ok
         THEN /\ tmp_dir' = i
              /\ fs' = fs \cup {i}
              /\ pc' = After(pc)
              /\ UNCHANGED fault
         ELSE /\ \E partial \in BOOLEAN :
                   fs' = IF partial THEN fs \cup {i} ELSE fs
              /\ fault' = fault \cup {"stage"}
              /\ pc' = "exit"
              /\ UNCHANGED tmp_dir
    /\ UNCHANGED <<config, i, cmd, opened_connections, live, close_attempted,
                   error_host, result, uploads>>
    /\ UNCHANGED <<uvars, pvars, svars>>

\* One of the three connects of deploy() lines 341-351: `needed` is the
\* condition of its if, `step` its place, `p` its key in opened_connections.
\* ssh_connect, sftp_connect and ftp_connect all end the script with
\* sys.exit(1) when the connection cannot be opened.
Connect(step, p, needed) ==
    /\ pc = step
    /\ IF needed
       THEN /\ log' = Append(log, step)
            /\ \E ok \in BOOLEAN :
                 IF ok
                 THEN /\ opened_connections' =
                             [opened_connections EXCEPT ![p] = TRUE]
                      /\ live' = live \cup {<<i, p>>}
                      /\ pc' = After(pc)
                      /\ UNCHANGED fault
                 ELSE /\ fault' = fault \cup {step}
                      /\ pc' = "exit"
                      /\ UNCHANGED <<opened_connections, live>>
            /\ UNCHANGED <<config, i, cmd, tmp_dir, fs, close_attempted,
                           error_host, result, uploads>>
       ELSE Skip
    /\ UNCHANGED <<uvars, pvars, svars>>

ssh_connect == Connect("open_ssh", "ssh", NeedsSsh(cmd))

sftp_connect == Connect("open_sftp", "sftp", deployment.protocol = "sftp")

ftp_connect == Connect("open_ftp", "ftp", deployment.protocol = "ftp")

\* What a command may print: nothing, or some text.
Outputs == {"", "out"}

\* execute(cmd) with its try block left out: what the command raises ends
\* the process.
ExecuteUncaught(step) ==
    /\ pc = step
    /\ IF step \in cmd
       THEN /\ log' = Append(log, step)
            /\ \E ok \in BOOLEAN :
                 IF ok
                 THEN /\ result' \in Outputs
                      /\ pc' = After(pc)
                      /\ UNCHANGED fault
                 ELSE /\ fault' = fault \cup {step}
                      /\ pc' = "crash"
                      /\ UNCHANGED result
            /\ UNCHANGED <<config, i, cmd, tmp_dir, fs, opened_connections,
                           live, close_attempted, error_host, uploads>>
       ELSE Skip
    /\ UNCHANGED <<uvars, pvars, svars>>

\* execute(cmd): a local shell command.  result starts as "" (line 302);
\* whatever check_output raises (the command cannot be run, or exits
\* non-zero) is caught and printed (lines 303-306), "" is returned, and
\* deploy() goes on with the next statement.
Execute(step) ==
    /\ pc = step
    /\ IF step \in cmd
       THEN /\ log' = Append(log, step)
            /\ \E ok \in BOOLEAN :
                 IF ok
                 THEN result' \in Outputs /\ UNCHANGED fault
                 ELSE result' = "" /\ fault' = fault \cup {step}
            /\ pc' = After(pc)
            /\ UNCHANGED <<config, i, cmd, tmp_dir, fs, opened_connections,
                           live, close_attempted, error_host, uploads>>
       ELSE Skip
    /\ UNCHANGED <<uvars, pvars, svars>>

execute_before == Execute("before")

execute_after == Execute("after")

\* ssh_execute(ssh, cmd): exec_command and the read of its output are in no
\* try block (lines 290-291), and neither is the call in deploy(): what they
\* raise ends the process.  Where no SSH client was opened, the variable ssh
\* still holds the dict of line 329, which has no exec_command: the call
\* can only raise.
SshExecute(step) ==
    /\ pc = step
    /\ IF step \in cmd
       THEN /\ log' = Append(log, step)
            /\ \E ok \in (IF opened_connections["ssh"] THEN BOOLEAN ELSE {FALSE}) :
                 IF ok
                 THEN /\ pc' = After(pc)
                      /\ result' \in Outputs
                      /\ UNCHANGED fault
                 ELSE /\ pc' = "crash"
                      /\ fault' = fault \cup {step}
                      /\ UNCHANGED result
            /\ UNCHANGED <<config, i, cmd, tmp_dir, fs, opened_connections,
                           live, close_attempted, error_host, uploads>>
       ELSE Skip
    /\ UNCHANGED <<uvars, pvars, svars>>

ssh_execute_before == SshExecute("ssh_before")

ssh_execute_after == SshExecute("ssh_after")

\* An upload that always goes through the SFTP client.
UploadCallSftpOnly(c) ==
    [client |-> "sftp", local_dir |-> tmp_dir, remote_path |-> i]

\* sftp_upload(sftp, tmp_dir, remote_path) / ftp_upload(ftp, tmp_dir,
\* remote_path): the client used, the staging directory read, and the
\* remote_path written to (that of the i-th deployment).
UploadCall(c) ==
    [client |-> c, local_dir |-> tmp_dir, remote_path |-> i]

\* deploy() lines 363-371: the upload matching the protocol.  sftp_upload
\* and ftp_upload catch what a file or a folder of the loop raises, but not
\* what their first statements raise (SpecUpload has the detail): the call
\* returns, or raises and ends the process.
transfer ==
    /\ pc = "transfer"
    /\ IF deployment.protocol \in {"sftp", "ftp"}
       THEN /\ log' = Append(log, "transfer")
            /\ uploads' = Append(uploads, UploadCall(deployment.protocol))
            /\ \E ok \in BOOLEAN :
                 IF ok
                 THEN pc' = After(pc) /\ UNCHANGED fault
                 ELSE pc' = "crash" /\ fault' = fault \cup {"transfer"}
            /\ UNCHANGED <<config, i, cmd, tmp_dir, fs, opened_connections,
                           live, close_attempted, error_host, result>>
       ELSE Skip
    /\ UNCHANGED <<uvars, pvars, svars>>

\* The order close_connections closes in (lines 256-264).
CloseOrder == <<"ssh", "ftp", "sftp">>

\* close_connections: one try block around the three closes.  The close of
\* the r-th open connection raises (r = n + 1: none does); the ones before
\* it were closed, the ones after it are never reached; the except clause
\* prints and the function returns.
close_connections ==
    /\ pc = "close"
    /\ LET open == SelectSeq(CloseOrder, LAMBDA p : opened_connections[p])
           n == Len(open)
       IN \E r \in 1..(n + 1) :
            /\ close_attempted' = {open[k] : k \in 1..(IF r <= n THEN r ELSE n)}
            /\ live' = live \ {<<i, open[k]>> : k \in 1..(r - 1)}
            /\ fault' = IF r <= n THEN fault \cup {"close"} ELSE fault
    /\ log' = Append(log, "close")
    /\ pc' = After(pc)
    /\ UNCHANGED <<config, i, cmd, tmp_dir, fs, opened_connections,
                   error_host, result, uploads>>
    /\ UNCHANGED <<uvars, pvars, svars>>

\* remove_tmp_dir: rmtree in a try block; a failure is printed and the
\* directory stays.
remove_tmp_dir ==
    /\ pc = "remove"
    /\ log' = Append(log, "remove")
    /\ \E ok \in BOOLEAN :
         IF ok
         THEN fs' = fs \ {tmp_dir} /\ UNCHANGED fault
         ELSE fs' = fs /\ fault' = fault \cup {"remove"}
    /\ pc' = After(pc)
    /\ UNCHANGED <<config, i, cmd, tmp_dir, opened_connections, live,
                   close_attempted, error_host, result, uploads>>
    /\ UNCHANGED <<uvars, pvars, svars>>

\* The variables of the other two specifications, at rest.
UploadIdle ==
    /\ client = "sftp" /\ tree = <<>> /\ remote_path = <<>>
    /\ remote_dirs = {} /\ remote_files = {} /\ faults = {} /\ cwd = <<>>
    /\ ops = <<>> /\ raised = FALSE /\ runs = 0

ProtoIdle ==
    /\ ppc = "idle" /\ host = <<>> /\ protocol_arg = "ssh"
    /\ protocol_dict = <<>> /\ connected = <<>>

StageIdle ==
    /\ spc = "idle" /\ source = <<>> /\ exclude = <<>> /\ item_no = 0
    /\ disk = <<>>

DeployIdle ==
    /\ config = <<>> /\ pc = "idle" /\ i = 0 /\ cmd = {} /\ tmp_dir = 0
    /\ fs = {} /\ opened_connections = NoConnections /\ live = {}
    /\ close_attempted = {} /\ log = <<>> /\ fault = {}
    /\ error_host = "" /\ result = "" /\ uploads = <<>>

\* __main__: the configuration is loaded; nothing is staged or open.
Init ==
    /\ config \in SeqsUpTo(Deployments, MaxBatch)
    /\ pc = "validate"
    /\ i = 0
    /\ cmd = {}
    /\ tmp_dir = 0
    /\ fs = {}
    /\ opened_connections = NoConnections
    /\ live = {}
    /\ close_attempted = {}
    /\ log = <<>>
    /\ fault = {}
    /\ error_host = ""
    /\ result = ""
    /\ uploads = <<>>
    /\ UploadIdle
    /\ ProtoIdle
    /\ StageIdle

Next ==
    \/ validate_config
    \/ build_deployments_dict
    \/ main_loop
    \/ create_tmp_file_structure
    \/ ssh_connect
    \/ sftp_connect
    \/ ftp_connect
    \/ execute_before
    \/ ssh_execute_before
    \/ transfer
    \/ execute_after
    \/ ssh_execute_after
    \/ close_connections
    \/ remove_tmp_dir

Spec == Init /\ [][Next]_vars

\* ================================================== sftp_upload, ftp_upload
\* A staged directory is a function from the names it lists (a subset of
\* 1..MaxNames, listed in that order by os.listdir) to what each one is: a
\* file, or a directory with its own items.
File == [kind |-> "file", items |-> <<>>]

RECURSIVE LocalDirs(_)
LocalDirs(d) ==
    LET content == IF d = 0
                   THEN {File}
                   ELSE {File} \cup {[kind |-> "dir", items |-> t] :
                                        t \in LocalDirs(d - 1)}
    IN UNION {[S -> content] : S \in SUBSET (1..MaxNames)}

\* The files and the directories of a staged tree, as paths from its root
\* (the root itself is directory <<>>).
RECURSIVE FilesOf(_, _)
FilesOf(ldir, lp) ==
    UNION {IF ldir[k].kind = "file"
           THEN {Append(lp, k)}
           ELSE FilesOf(ldir[k].items, Append(lp, k)) : k \in DOMAIN ldir}

RECURSIVE DirsOf(_, _)
DirsOf(ldir, lp) ==
    {lp} \cup UNION {IF ldir[k].kind = "file"
                     THEN {}
                     ELSE DirsOf(ldir[k].items, Append(lp, k)) : k \in DOMAIN ldir}

\* What may fail for an item of the tree: the upload of a file (put /
\* storbinary raises), the creation of a directory (mkdir / mkd raises), or
\* the opening of a staged file for reading.
FaultsOf(t) ==
    {<<"put", f>> : f \in FilesOf(t, <<>>)}
      \cup {<<"open", f>> : f \in FilesOf(t, <<>>)}
      \cup {<<"mkdir", d>> : d \in DirsOf(t, <<>>)}

\* The number of files and directories below a staged directory.
Size(ldir) ==
    Cardinality(FilesOf(ldir, <<>>)) + Cardinality(DirsOf(ldir, <<>>)) - 1

RECURSIVE SetsUpTo(_, _)
SetsUpTo(U, n) ==
    IF n = 0 THEN {{}}
    ELSE LET smaller == SetsUpTo(U, n - 1)
         IN smaller \cup {F \cup {x} : F \in smaller, x \in U}

\* remote_path: "", "/", "www" and "/www".  `parts` are the path's
\* components (0 stands for www), `absolute` its leading slash.
RemotePaths == [parts : {<<>>, <<0>>}, absolute : BOOLEAN]

\* os.path.join(remote_dir, item) with backslashes replaced (lines 391-392,
\* 422-423), applied down from remote_path to the item at local path lp.
RemoteOf(lp) == remote_path.parts \o lp

\* `if remote_dir`: the empty string is false.
Truthy(parts) == remote_path.absolute \/ parts # <<>>

Parent(p) == IF p = <<>> THEN <<>> ELSE SubSeq(p, 1, Len(p) - 1)

\* The server resolves a relative path from the session's working directory
\* (the login directory <<>> unless a cwd moved it).
Resolve(st, parts) == IF remote_path.absolute THEN parts ELSE st.cwd \o parts

Logged_op(st, o, parts, res) ==
    [st EXCEPT !.ops = Append(@, [op |-> o, path |-> parts, result |-> res])]

\* remote_dir_exists_sftp: stat; an IOError means the directory is absent.
\* remote_dir_exists_ftp: cwd into it, then cwd('..'); error_perm means it is
\* absent.  The FTP session is left in the parent of the directory.
Exists(c, st, parts) == Resolve(st, parts) \in st.dirs

AfterExists(c, st, parts) ==
    LET found == Exists(c, st, parts)
        st1 == Logged_op(st, "exists", parts, IF found THEN "found" ELSE "absent")
    IN IF c = "ftp" /\ found
       THEN [st1 EXCEPT !.cwd = Parent(Resolve(st, parts))]
       ELSE st1

\* sftp.mkdir / ftp.mkd for the directory at local path lp: refused by the
\* fault, because the directory exists, or because its parent does not.
MkdirResult(st, lp) ==
    LET r == Resolve(st, RemoteOf(lp))
    IN IF <<"mkdir", lp>> \in faults THEN "denied"
       ELSE IF r \in st.dirs THEN "exists"
       ELSE IF Parent(r) \notin st.dirs THEN "no such directory"
       ELSE "ok"

Mkdir(st, lp) ==
    LET res == MkdirResult(st, lp)
        st1 == Logged_op(st, "mkdir", RemoteOf(lp), res)
    IN IF res = "ok"
       THEN [st1 EXCEPT !.dirs = @ \cup {Resolve(st, RemoteOf(lp))}]
       ELSE st1

\* sftp.put / ftp.storbinary for the file at local path lp.
PutResult(st, lp) ==
    LET r == Resolve(st, RemoteOf(lp))
    IN IF <<"put", lp>> \in faults \/ <<"open", lp>> \in faults THEN "denied"
       ELSE IF Parent(r) \notin st.dirs THEN "no such directory"
       ELSE "ok"

Put(st, lp) ==
    LET res == PutResult(st, lp)
        st1 == Logged_op(st, "put", RemoteOf(lp), res)
    IN IF res = "ok"
       THEN [st1 EXCEPT !.files = @ \cup {Resolve(st, RemoteOf(lp))}]
       ELSE st1

\* sftp_upload(sftp, local_dir, remote_dir) and ftp_upload(ftp, local_dir,
\* remote_dir), for the client c, the staged directory ldir at local path lp:
\*   - lines 386-387 / 417-418: create remote_dir when it does not exist; this
\*     mkdir is in no try block, what it raises leaves the function;
\*   - the loop over os.listdir: a file is put inside try/except (ftp_upload
\*     opens it first, outside the try, line 426); a directory is created
\*     inside try/except and then uploaded by the recursive call, whether or
\*     not the creation worked.
\* An exception that leaves a call leaves every caller above it.
RECURSIVE UploadDir(_, _, _, _)
RECURSIVE UploadItems(_, _, _, _, _)
UploadDir(c, ldir, lp, st) ==
    LET parts == RemoteOf(lp)
        test == Truthy(parts)
        create == test /\ ~Exists(c, st, parts)
        st1 == IF test THEN AfterExists(c, st, parts) ELSE st
        st2 == IF create THEN Mkdir(st1, lp) ELSE st1
    IN IF create /\ MkdirResult(st1, lp) # "ok"
       THEN [st2 EXCEPT !.raised = TRUE]
       ELSE UploadItems(c, ldir, lp, 1, st2)

UploadItems(c, ldir, lp, k, st) ==
    IF st.raised \/ k > MaxNames THEN st
    ELSE IF k \notin DOMAIN ldir THEN UploadItems(c, ldir, lp, k + 1, st)
    ELSE LET item == Append(lp, k)
         IN IF ldir[k].kind = "file"
            THEN IF c = "ftp" /\ <<"open", item>> \in faults
                 THEN [Logged_op(st, "open", RemoteOf(item), "denied")
                          EXCEPT !.raised = TRUE]
                 ELSE UploadItems(c, ldir, lp, k + 1, Put(st, item))
            ELSE UploadItems(c, ldir, lp, k + 1,
                             UploadDir(c, ldir[k].items, item, Mkdir(st, item)))

\* One upload of the staged tree over a fresh session.
Upload(c) ==
    UploadDir(c, tree, <<>>,
              [dirs |-> remote_dirs, files |-> remote_files, cwd |-> <<>>,
               ops |-> <<>>, raised |-> FALSE])

UploadStep(c) ==
    /\ client = c
    /\ runs < MaxRuns
    /\ LET st == Upload(c)
       IN /\ remote_dirs' = st.dirs
          /\ remote_files' = st.files
          /\ cwd' = st.cwd
          /\ ops' = st.ops
          /\ raised' = st.raised
    /\ runs' = runs + 1
    /\ UNCHANGED <<client, tree, remote_path, faults>>
    /\ UNCHANGED <<dvars, pvars, svars>>

sftp_upload == UploadStep("sftp")

ftp_upload == UploadStep("ftp")

\* A staged tree, a server (the login directory always exists; remote_path
\* may or may not exist yet) and the items that fail.
InitUpload ==
    /\ client \in {"sftp", "ftp"}
    /\ tree \in {t \in LocalDirs(MaxDepth) : Size(t) <= MaxItems}
    /\ remote_path \in RemotePaths
    /\ remote_dirs \in {{<<>>}, {<<>>, remote_path.parts}}
    /\ remote_files = {}
    /\ faults \in SetsUpTo(FaultsOf(tree), MaxFaults)
    /\ cwd = <<>>
    /\ ops = <<>>
    /\ raised = FALSE
    /\ runs = 0
    /\ DeployIdle
    /\ ProtoIdle
    /\ StageIdle

NextUpload == sftp_upload \/ ftp_upload

SpecUpload == InitUpload /\ [][NextUpload]_vars

\* ====================================================== build_protocol_dict
\* Python's None is modelled by the falsy value of the field's type: "" for
\* a string, 0 for a port.  `a or b` takes b when a is falsy, so a key that
\* is absent and a key holding "" or 0 behave alike in build_protocol_dict.
OrStr(a, b) == IF a # "" THEN a ELSE b

OrInt(a, b) == IF a # 0 THEN a ELSE b

\* `host.get(protocol) or {}`: a host without the protocol's object gives
\* the empty dict, whose every get is None.
EmptyDict == [username |-> "", password |-> "", port |-> 0]

\* The protocol objects the schema accepts (lines 53-82): username and
\* password are required strings, port is an optional integer.
ProtocolDicts ==
    {EmptyDict} \cup [username : {"deploy", ""}, password : {"secret"},
                      port : {0, 2222}]

\* The hosts the schema accepts (lines 46-87): name and hostname required,
\* username and password optional, no port at the host's level
\* (additionalProperties is False), so host.get("port") is None.
Hosts ==
    [hostname : {"h1"}, username : {"", "root"}, password : {"", "hostpw"},
     port : {0}, ssh : ProtocolDicts, sftp : ProtocolDicts, ftp : ProtocolDicts]

ssh_port == 22
sftp_port == 22
ftp_port == 21

\* Line 272: `A or B or ssh_port if protocol == "ssh" else sftp_port if
\* protocol == "sftp" else ftp_port`.  A conditional expression binds weaker
\* than `or`: the chain A or B or ssh_port is the value for ssh only.
Port(h, protocol) ==
    IF protocol = "ssh"
    THEN OrInt(OrInt(h[protocol].port, h.port), ssh_port)
    ELSE IF protocol = "sftp" THEN sftp_port ELSE ftp_port

\* build_protocol_dict(host, protocol).  The schema allows no hostname in a
\* protocol object, so protocol_dict.get("hostname") is None.
build_protocol_dict(h, protocol) ==
    [hostname |-> OrStr("", h.hostname),
     username |-> OrStr(h[protocol].username, h.username),
     password |-> OrStr(h[protocol].password, h.password),
     port |-> Port(h, protocol)]

\* deploy() lines 329-331: the dict of one protocol is built.
deploy_build_protocol_dict ==
    /\ ppc = "input"
    /\ protocol_dict' = build_protocol_dict(host, protocol_arg)
    /\ ppc' = "built"
    /\ UNCHANGED <<host, protocol_arg, connected>>
    /\ UNCHANGED <<dvars, uvars, svars>>

\* ssh_connect line 196, ftp_connect lines 216-217, sftp_connect lines
\* 236-237: the dict's hostname, port, username and password go to the
\* library as they are.
connect_call ==
    /\ ppc = "built"
    /\ connected' = [hostname |-> protocol_dict.hostname,
                     port |-> protocol_dict.port,
                     username |-> protocol_dict.username,
                     password |-> protocol_dict.password]
    /\ ppc' = "connected"
    /\ UNCHANGED <<host, protocol_arg, protocol_dict>>
    /\ UNCHANGED <<dvars, uvars, svars>>

InitProto ==
    /\ ppc = "input"
    /\ host \in Hosts
    /\ protocol_arg \in Protocols
    /\ protocol_dict = <<>>
    /\ connected = <<>>
    /\ DeployIdle
    /\ UploadIdle
    /\ StageIdle

NextProto == deploy_build_protocol_dict \/ connect_call

SpecProto == InitProto /\ [][NextProto]_vars

\* ================================================ create_tmp_file_structure
\* The machine's disk is the set of its files and the set of its
\* directories, each an absolute path (a sequence of names; <<>> is "/").
\* tempfile.gettempdir() is /tmp, which also holds a file k of somebody
\* else; localpath is /proj; the uuid4 name of the staging directory is u.
TempDir == <<"tmp">>
TmpDir == TempDir \o <<"u">>
LocalPath == <<"proj">>

\* The trees localpath may hold: a file a, a directory d, a file d/b.
SourceTrees ==
    {t \in [files : SUBSET {<<"a">>, <<"d", "b">>}, dirs : SUBSET {<<"d">>}] :
        <<"d", "b">> \in t.files => <<"d">> \in t.dirs}

\* The disk before the call: /, /tmp, /tmp/k, and the tree t at /proj.
DiskWith(t) ==
    [files |-> {TempDir \o <<"k">>} \cup {LocalPath \o f : f \in t.files},
     dirs |-> {<<>>, TempDir, LocalPath} \cup {LocalPath \o d : d \in t.dirs}]

\* The entries an exclude list may hold.  The schema (line 104) takes any
\* list of strings: a, d, d/b, x (which no tree has), .., ../k,
\* ../../proj/a, /proj/a and /tmp/k.
ExcludeEntries ==
    [absolute : {FALSE},
     parts : {<<"a">>, <<"d">>, <<"d", "b">>, <<"x">>, <<"..">>,
              <<"..", "k">>, <<"..", "..", "proj", "a">>}]
      \cup [absolute : {TRUE}, parts : {<<"proj", "a">>, <<"tmp", "k">>}]

IsPrefix(p, q) == Len(p) <= Len(q) /\ SubSeq(q, 1, Len(p)) = p

\* os.path.join(tmp_dir, item): an item that is an absolute path discards
\* tmp_dir.
Join(base, e) == IF e.absolute THEN e.parts ELSE base \o e.parts

\* The path the system resolves `parts` to, from directory cur: each step
\* needs cur to be a directory, and .. goes to the parent (the parent of /
\* is /).  The result is a set: empty when the path does not resolve.
RECURSIVE Walk(_, _, _)
Walk(d, cur, parts) ==
    IF parts = <<>> THEN {cur}
    ELSE IF cur \notin d.dirs THEN {}
    ELSE Walk(d,
              IF Head(parts) = ".." THEN Parent(cur) ELSE Append(cur, Head(parts)),
              Tail(parts))

isfile(d, path) == Walk(d, <<>>, path) \cap d.files # {}
isdir(d, path) == Walk(d, <<>>, path) \cap d.dirs # {}

\* os.remove(item_path).
remove(d, path) == [d EXCEPT !.files = @ \ Walk(d, <<>>, path)]

\* shutil.rmtree(item_path) first deletes all that is below the directory
\* the path resolves to ...
emptied(d, path) ==
    LET gone(q) == \E r \in Walk(d, <<>>, path) : q # r /\ IsPrefix(r, q)
    IN [files |-> {q \in d.files : ~gone(q)}, dirs |-> {q \in d.dirs : ~gone(q)}]

\* ... and then calls os.rmdir(item_path), which resolves the path again.
rmdir(d, path) == [d EXCEPT !.dirs = @ \ Walk(d, <<>>, path)]

\* shutil.copytree(localpath, tmp_dir).
copytree(d, src, dst) ==
    [files |-> d.files \cup {dst \o SubSeq(f, Len(src) + 1, Len(f)) :
                                f \in {x \in d.files : IsPrefix(src, x)}},
     dirs |-> d.dirs \cup {dst \o SubSeq(g, Len(src) + 1, Len(g)) :
                              g \in {x \in d.dirs : IsPrefix(src, x)}}]

\* Lines 451-458: the copy; when copytree raises, the script exits.
stage_copy ==
    /\ spc = "copy"
    /\ \E ok \in BOOLEAN :
         IF ok
         THEN /\ disk' = copytree(disk, LocalPath, TmpDir)
              /\ item_no' = 1
              /\ spc' = "exclude"
         ELSE /\ spc' = "exit"
              /\ UNCHANGED <<disk, item_no>>
    /\ UNCHANGED <<source, exclude>>
    /\ UNCHANGED <<dvars, uvars, pvars>>

\* Lines 461-466: one turn of the loop over exclude.  The loop is in no
\* try block: when the path given to rmtree no longer resolves once the
\* directory is emptied (it went through a directory that is now deleted),
\* os.rmdir raises FileNotFoundError and the process ends.
stage_exclude ==
    /\ spc = "exclude"
    /\ item_no <= Len(exclude)
    /\ LET item_path == Join(TmpDir, exclude[item_no])
       IN IF isfile(disk, item_path)
          THEN disk' = remove(disk, item_path) /\ UNCHANGED spc
          ELSE IF isdir(disk, item_path)
          THEN IF isdir(emptied(disk, item_path), item_path)
               THEN /\ disk' = rmdir(emptied(disk, item_path), item_path)
                    /\ UNCHANGED spc
               ELSE /\ disk' = emptied(disk, item_path)
                    /\ spc' = "crash"
          ELSE UNCHANGED <<disk, spc>>
    /\ item_no' = item_no + 1
    /\ UNCHANGED <<source, exclude>>
    /\ UNCHANGED <<dvars, uvars, pvars>>

\* Line 469: return tmp_dir.
stage_return ==
    /\ spc = "exclude"
    /\ item_no > Len(exclude)
    /\ spc' = "staged"
    /\ UNCHANGED <<source, exclude, item_no, disk>>
    /\ UNCHANGED <<dvars, uvars, pvars>>

InitStage ==
    /\ spc = "copy"
    /\ source \in SourceTrees
    /\ exclude \in {<<>>} \cup SeqsUpTo(ExcludeEntries, MaxExclude)
    /\ item_no = 0
    /\ disk = DiskWith(source)
    /\ DeployIdle
    /\ UploadIdle
    /\ ProtoIdle

NextStage == stage_copy \/ stage_exclude \/ stage_return

SpecStage == InitStage /\ [][NextStage]_vars

\* ============================================================ the claims
\* The steps in the order the specification gives them: STAGE, OPEN (SSH,
\* SFTP, FTP), PRE-LOCAL, PRE-REMOTE, TRANSFER, POST-LOCAL, POST-REMOTE,
\* TEARDOWN (close, then remove).
StepOrder ==
    <<"stage", "open_ssh", "open_sftp", "open_ftp", "before", "ssh_before",
      "transfer", "after", "ssh_after", "close", "remove">>

Rank(s) == CHOOSE k \in 1..Len(StepOrder) : StepOrder[k] = s

Logged(s) == \E k \in 1..Len(log) : log[k] = s

OpenSteps == {"open_ssh", "open_sftp", "open_ftp"}

\* The running deployment's run is over: deploy() returned, or the process
\* ended inside it.
RunEnded == i >= 1 /\ pc \in Terminal \cup {"loop"}

\* Every connection the run opened is closed and its staging directory is
\* gone.
TornDown == (\A p \in Protocols : <<i, p>> \notin live) /\ i \notin fs

\* C1: whichever of PRE-LOCAL, PRE-REMOTE, TRANSFER, POST-LOCAL and
\* POST-REMOTE fails, at the end of the run every connection the run opened
\* is closed and its staging directory is removed.
C1_TeardownUnconditional ==
    (/\ RunEnded
     /\ fault # {}
     /\ fault \subseteq {"before", "ssh_before", "transfer", "after", "ssh_after"})
    => TornDown

\* C2: a failure of one deployment never keeps a later deployment of the
\* batch from being started: when the script stops after having started a
\* deployment, it has started them all.
C2_BatchContinues ==
    (pc \in Terminal /\ i >= 1) => i = Len(config)

\* C3: when opening a transport fails, the transports the run had already
\* opened are closed and the staging directory is removed before the script
\* moves on.
C3_OpenFailureTearsDown ==
    (RunEnded /\ fault \cap OpenSteps # {}) => TornDown

\* The transports a deployment requires, as the specification states them.
Required(p) ==
    CASE p = "ssh" -> \/ deployment.protocol = "ssh"
                      \/ "ssh_before" \in cmd
                      \/ "ssh_after" \in cmd
      [] p = "ftp" -> deployment.protocol = "ftp"
      [] p = "sftp" -> deployment.protocol = "sftp"

\* C4: once the OPEN step is over, the transports opened are exactly the
\* required ones: SSH iff the protocol is ssh or an SSH hook is set, FTP iff
\* the protocol is ftp, SFTP iff the protocol is sftp.
C4_OpensExactlyRequired ==
    /\ pc \in {"before", "ssh_before", "transfer", "after", "ssh_after",
               "close", "remove", "crash"}
         => \A p \in Protocols : opened_connections[p] <=> Required(p)
    /\ pc \in {"before", "ssh_before", "transfer", "after", "ssh_after",
               "close", "crash"}
         => \A p \in Protocols : (<<i, p>> \in live) <=> Required(p)

\* C4's case: protocol sftp with only ssh_after set has SFTP and SSH open,
\* and no FTP, when the upload starts.
C4_Witness ==
    /\ pc = "transfer"
    /\ deployment.protocol = "sftp"
    /\ cmd = {"ssh_after"}
    /\ opened_connections = [ssh |-> TRUE, ftp |-> FALSE, sftp |-> TRUE]
    /\ live = {<<i, "ssh">>, <<i, "sftp">>}

\* C5: when close_connections has returned, a close was attempted on every
\* connection that was open, whichever of the closes raised.
C5_CloseAllContinues ==
    pc = "remove" => \A p \in Protocols :
                        opened_connections[p] => p \in close_attempted

\* The steps a complete run of a deployment performs.
ExpectedSteps ==
    SelectSeq(StepOrder,
              LAMBDA s : \/ s \in {"stage", "transfer", "close", "remove"}
                         \/ s \in cmd
                         \/ s = "open_ssh" /\ Required("ssh")
                         \/ s = "open_sftp" /\ Required("sftp")
                         \/ s = "open_ftp" /\ Required("ftp"))

\* C6: the steps of a run happen in the order STAGE, OPEN, PRE-LOCAL,
\* PRE-REMOTE, TRANSFER, POST-LOCAL, POST-REMOTE, close, remove, each at
\* most once; a connection is opened only after the staging directory is
\* built; the upload comes after every configured pre-hook; and a run that
\* returns has performed every step its deployment configures.
C6_StrictStepOrder ==
    /\ \A a, b \in 1..Len(log) : a < b => Rank(log[a]) < Rank(log[b])
    /\ \A k \in 1..Len(log) : log[k] \in OpenSteps => (k > 1 /\ log[1] = "stage")
    /\ pc \in OpenSteps => (tmp_dir = i /\ i \in fs /\ Logged("stage"))
    /\ Logged("transfer") =>
         \A h \in {"before", "ssh_before"} \cap cmd :
            \E a, b \in 1..Len(log) : a < b /\ log[a] = h /\ log[b] = "transfer"
    /\ (pc = "loop" /\ i >= 1) => log = ExpectedSteps

\* C6's case: a deployment over sftp with all four hooks has run to its end.
C6_Witness ==
    /\ pc = "loop"
    /\ log = <<"stage", "open_ssh", "open_sftp", "before", "ssh_before",
               "transfer", "after", "ssh_after", "close", "remove">>

\* C7: a remote SSH hook that raises does not end the run: after a failed
\* ssh_before the run still performs TRANSFER and TEARDOWN, after a failed
\* ssh_after it still performs TEARDOWN.
C7_SshHookNonFatal ==
    /\ (RunEnded /\ fault = {"ssh_before"})
         => (Logged("transfer") /\ Logged("close") /\ Logged("remove"))
    /\ (RunEnded /\ fault = {"ssh_after"})
         => (Logged("close") /\ Logged("remove"))

\* An upload of the staged file f was attempted in the last upload.
PutAttempted(f) ==
    \E k \in 1..Len(ops) : ops[k].op = "put" /\ ops[k].path = RemoteOf(f)

\* C8: when the upload of one file fails, or the creation of one remote
\* directory fails, the uploader (SFTP or FTP) still attempts the upload of
\* every other file of the staged tree.  Stated for the plain case: the
\* remote_path is an absolute path and the failing item lies below it.
C8_UploadContinues ==
    (/\ runs >= 1
     /\ remote_path.absolute
     /\ Cardinality(faults) = 1
     /\ <<"mkdir", <<>>>> \notin faults)
    => \A f \in FilesOf(tree, <<>>) :
          (<<"put", f>> \notin faults /\ <<"open", f>> \notin faults)
          => PutAttempted(f)

\* C9: the uploader creates a remote directory only when it is absent: no
\* create-directory call is issued for a directory that exists, so an upload
\* to an already populated target gets no "already exists" error.  Stated
\* for a remote_path that is an absolute path.
C9_NoCreateOfExisting ==
    remote_path.absolute
    => \A k \in 1..Len(ops) : ops[k].op = "mkdir" => ops[k].result # "exists"

\* The default port of each protocol, as the specification gives them.
DefaultPort(p) == CASE p = "ssh" -> 22 [] p = "sftp" -> 22 [] p = "ftp" -> 21

\* C10: for each protocol, the username, password and port used to connect
\* are the protocol's own value when it has one, otherwise the host's value
\* when it has one, and for the port otherwise the protocol's default; a port
\* configured under host.sftp or host.ftp is the port connected to.
C10_ParametersFallBack ==
    ppc = "connected" =>
      LET own == host[protocol_arg]
      IN /\ connected.username =
              (IF own.username # "" THEN own.username ELSE host.username)
         /\ connected.password =
              (IF own.password # "" THEN own.password ELSE host.password)
         /\ connected.port =
              (IF own.port # 0 THEN own.port
               ELSE IF host.port # 0 THEN host.port
               ELSE DefaultPort(protocol_arg))

\* C11: a deployment that names a host declared nowhere stops the whole
\* script before any deployment runs: nothing is staged, no connection is
\* opened and no hook is run for any deployment, those listed before the
\* faulty one included, and the error printed names a host that is missing.
C11_UnresolvedHostAbortsAll ==
    Unresolved # {} =>
       /\ pc \in {"validate", "build", "exit"}
       /\ i = 0
       /\ fs = {}
       /\ live = {}
       /\ log = <<>>
       /\ uploads = <<>>
       /\ (pc = "exit" /\ \A k \in 1..Len(config) :
                             config[k].protocol \in SchemaProtocols)
            => error_host \in {config[k].host : k \in Unresolved}

\* C11's case: the second of two deployments names the undeclared host, and
\* the script has exited with the error that names it.
C11_Witness ==
    /\ pc = "exit"
    /\ Len(config) = 2
    /\ config[1].host = "prod"
    /\ config[2].host = "ghost"
    /\ error_host = "ghost"
    /\ i = 0

\* The steps that come after step h in a run, and the return of the run.
Past(h) ==
    {StepOrder[k] : k \in {n \in 1..Len(StepOrder) : n > Rank(h)}} \cup {"loop"}

\* C13: an SSH hook is never run without a connection and never silently
\* skipped: when a configured SSH hook is about to run, or has run, the SSH
\* connection opened in this run is open; a run that got past the place of
\* a configured SSH hook has run it; and no run has an SSH hook set with
\* SSH not opened once the OPEN step is over.
C13_SshHookOverOpenConnection ==
    \A h \in {"ssh_before", "ssh_after"} \cap cmd :
       /\ pc = h => (opened_connections["ssh"] /\ <<i, "ssh">> \in live)
       /\ (Logged(h) /\ pc \notin {"remove", "loop", "done"})
            => (opened_connections["ssh"] /\ <<i, "ssh">> \in live)
       /\ (i >= 1 /\ pc \in Past(h)) => Logged(h)
       /\ (i >= 1 /\ pc \in Past("open_ssh")) => opened_connections["ssh"]

\* C13's case: only ssh_after is set; it has run over the open SSH
\* connection of this run, which is about to be closed.
C13_Witness ==
    /\ pc = "close"
    /\ cmd = {"ssh_after"}
    /\ log[Len(log)] = "ssh_after"
    /\ <<i, "ssh">> \in live
    /\ fault = {}

\* C14: a local hook that fails does not end the run: the output of the
\* failed hook is the empty text, the process neither exits nor crashes,
\* and a run whose only failures are local hooks performs every step its
\* deployment configures, tears down, and returns.
C14_LocalHookNonFatal ==
    /\ (fault # {} /\ fault \subseteq {"before", "after"})
         => pc \notin {"exit", "crash"}
    /\ \A h \in {"before", "after"} :
         (pc = After(h) /\ h \in fault) => result = ""
    /\ (pc = "loop" /\ i >= 1 /\ fault \subseteq {"before", "after"})
         => (log = ExpectedSteps /\ TornDown)

\* C14's case: both local hooks failed, and the run went through the
\* upload and the teardown and returned.
C14_Witness ==
    /\ pc = "loop"
    /\ fault = {"before", "after"}
    /\ Logged("transfer")
    /\ Logged("close")
    /\ Logged("remove")

\* The position of step s in the log of the run, 0 when it did not happen.
Pos(s) == IF Logged(s) THEN CHOOSE k \in 1..Len(log) : log[k] = s ELSE 0

\* C15 as stated: with both post-hooks configured, ssh_after runs before
\* the local after; with both pre-hooks, the local before runs before
\* ssh_before.
C15_RemotePostHookFirst ==
    /\ (Logged("after") /\ Logged("ssh_after")) => Pos("ssh_after") < Pos("after")
    /\ (Logged("before") /\ Logged("ssh_before")) => Pos("before") < Pos("ssh_before")

\* C15 amended: with both post-hooks configured, the local after runs
\* before ssh_after (ssh_after never runs while a configured after has yet
\* to run); with both pre-hooks, the local before runs before ssh_before.
C15_LocalHookFirst ==
    /\ (Logged("after") /\ Logged("ssh_after")) => Pos("after") < Pos("ssh_after")
    /\ (Logged("ssh_after") /\ "after" \in cmd) => Logged("after")
    /\ (Logged("before") /\ Logged("ssh_before")) => Pos("before") < Pos("ssh_before")
    /\ (Logged("ssh_before") /\ "before" \in cmd) => Logged("before")

\* C15's case: all four hooks are set and both post-hooks have run.
C15_Witness ==
    /\ cmd = CmdKeys
    /\ Logged("after")
    /\ Logged("ssh_after")
    /\ Logged("before")
    /\ Logged("ssh_before")

\* C16: deployments run one at a time in the order of the list: at any
\* moment only the running deployment has a staging directory or an open
\* connection, and when a deployment starts staging, every earlier one has
\* its connections closed and its staging directory removed.
C16_OneAtATime ==
    /\ \A r \in 1..Len(config) :
         (r \in fs \/ \E p \in Protocols : <<r, p>> \in live) => r = i
    /\ pc = "stage" => (fs = {} /\ live = {})

\* C17: a run that reaches TRANSFER makes exactly one upload call, through
\* the client of the deployment's protocol, which this run opened and
\* which is open, from this run's staging directory to this deployment's
\* remote_path; a run past TRANSFER has made that call.
C17_ExactlyOneMatchingUpload ==
    /\ Len(uploads) <= 1
    /\ \A k \in 1..Len(uploads) :
         /\ uploads[k] = [client |-> deployment.protocol,
                          local_dir |-> i, remote_path |-> i]
         /\ opened_connections[uploads[k].client]
         /\ (pc \notin {"remove", "loop", "done"})
              => <<i, uploads[k].client>> \in live
    /\ (i >= 1 /\ pc \in Past("transfer")) => Len(uploads) = 1
    /\ (i >= 1 /\ pc \in Past("transfer") \cup {"transfer"})
         => deployment.protocol \in {"ftp", "sftp"}

\* C17's case: a deployment over ftp has uploaded once through the FTP
\* client and is at its teardown.
C17_Witness ==
    /\ pc = "close"
    /\ deployment.protocol = "ftp"
    /\ uploads = <<[client |-> "ftp", local_dir |-> i, remote_path |-> i]>>
    /\ fault = {}

\* C18: no connection outlives the deployment that opened it: when the next
\* deployment is about to start, no connection of the one that returned is
\* open, also when a close raised; and every connection a hook or the
\* upload uses was opened by the running deployment.  Stated for the plain
\* case: a connection whose own close raised is not counted as open.
C18_NoConnectionRetained ==
    /\ (pc = "loop" /\ i >= 1 /\ i < Len(config))
         => \A p \in Protocols \ close_attempted : <<i, p>> \notin live
    /\ \A h \in {"ssh_before", "ssh_after"} \cap cmd :
         pc = h => <<i, "ssh">> \in live
    /\ (pc = "transfer" /\ i >= 1) => <<i, deployment.protocol>> \in live

\* C20: the staging directory is removed only after a close was attempted
\* on every connection the run opened; and a removal that raises ends
\* nothing: the run returns and the loop goes on to the next deployment.
C20_RemoveAfterEveryClose ==
    /\ Logged("remove")
         => \A p \in Protocols : opened_connections[p] => p \in close_attempted
    /\ "remove" \in fault => pc \in {"loop", "done"}

\* What was copied to the staging directory and is still there, as paths
\* from its root; `there` tells whether the staging directory exists.
Staged ==
    [there |-> TmpDir \in disk.dirs,
     files |-> {SubSeq(f, Len(TmpDir) + 1, Len(f)) :
                  f \in {x \in disk.files : IsPrefix(TmpDir, x)}},
     dirs |-> {SubSeq(g, Len(TmpDir) + 1, Len(g)) :
                  g \in {x \in disk.dirs : IsPrefix(TmpDir, x) /\ x # TmpDir}}]

\* Path q of the tree is excluded: an entry names it or a directory above
\* it.
Excluded(q) ==
    \E n \in 1..Len(exclude) :
       ~exclude[n].absolute /\ IsPrefix(exclude[n].parts, q)

\* C12: for every exclude list and every source tree, the removal of the
\* excluded entries ends without an error, and what create_tmp_file_
\* structure returns is the source tree without the paths the list names,
\* each directory with all below it; an entry that names nothing in the
\* tree changes nothing.
C12_StagedIsSourceMinusExcluded ==
    /\ spc # "crash"
    /\ spc = "staged" =>
          /\ Staged.there
          /\ Staged.files = {f \in source.files : ~Excluded(f)}
          /\ Staged.dirs = {g \in source.dirs : ~Excluded(g)}

\* C19: staging deletes only inside the staging directory, whatever the
\* exclude list holds: all that was on the disk before the call, the source
\* tree first of all, is still there.
C19_DeletesOnlyInStaging ==
    spc \in {"exclude", "staged"} =>
       /\ DiskWith(source).files \subseteq disk.files
       /\ DiskWith(source).dirs \subseteq disk.dirs

====
